---- MODULE Spec2Model ----
(***************************************************************************)
(* AliMPay helper scripts: the MD5 request signers (generate_payment_url,  *)
(* generate_payment_url_v2, test_payment), the two payment-URL builders    *)
(* and the deep-link test harness (test_alipay_deeplink).                  *)
(*                                                                         *)
(* Text is modelled as a sequence of Unicode code points, so that sorting, *)
(* joining, URL-encoding and parsing are computed character by character.  *)
(* A Python value is a record [t, s, n]: a str (t = "str", text s), an int *)
(* (t = "int", number n) or None (t = "none").  A dict is the sequence of  *)
(* its entries [k, v] in insertion order, with pairwise different keys.    *)
(***************************************************************************)
EXTENDS Integers, Sequences, FiniteSets, TLC

VARIABLES
    params,            \* the dict handed to generate_sign
    key,               \* the merchant secret handed to generate_sign / the builder
    op,                \* the signer that ran last on params ("none": not signed yet)
    sorted_keys,       \* generate_sign's sorted_keys (keys that take part), in order
    sign_str_with_key, \* the text generate_sign handed to MD5
    signature,         \* generate_sign's return value
    kwargs,            \* keyword arguments of the next generate_payment_url call
    now,               \* int(time.time()) at the call
    base_url,          \* base_url argument of the v2 builder
    uop,               \* the builder that ran last on kwargs ("none": not called yet)
    full_url,          \* the URL the builder returned
    url_params,        \* the parameter dict the builder returned
    hpc,               \* deep-link harness: control point of main
    scenario,          \* deep-link harness: number of the scenario being run (1..6)
    issued,            \* deep-link harness: scenarios whose request was sent
    timeouts,          \* deep-link harness: timeout given to each request sent
    response,          \* deep-link harness: what came back for the pending request
    log                \* deep-link harness: what main has printed, one item per report

signVars == <<params, op, sorted_keys, sign_str_with_key, signature>>
urlVars == <<kwargs, now, base_url, uop, full_url, url_params>>
harnessVars == <<hpc, scenario, issued, timeouts, response, log>>
vars == <<params, key, op, sorted_keys, sign_str_with_key, signature,
          kwargs, now, base_url, uop, full_url, url_params,
          hpc, scenario, issued, timeouts, response, log>>

----------------------------------------------------------------------------
(* Bounds of the model. *)

\* Largest number of entries of a dict built entry by entry for generate_sign.
MaxParams == 3
\* Largest number of keyword arguments passed to a URL builder.
MaxKwargs == 2

----------------------------------------------------------------------------
(* String literals of the scripts, as code points. *)

S_pid == <<112,105,100>>
S_type == <<116,121,112,101>>
S_out_trade_no == <<111,117,116,95,116,114,97,100,101,95,110,111>>
S_notify_url == <<110,111,116,105,102,121,95,117,114,108>>
S_return_url == <<114,101,116,117,114,110,95,117,114,108>>
S_name == <<110,97,109,101>>
S_money == <<109,111,110,101,121>>
S_sign_type == <<115,105,103,110,95,116,121,112,101>>
S_sign == <<115,105,103,110>>
S_sitename == <<115,105,116,101,110,97,109,101>>
S_amount == <<97,109,111,117,110,116>>
S_product_name == <<112,114,111,100,117,99,116,95,110,97,109,101>>
S_alipay == <<97,108,105,112,97,121>>
S_TEST == <<84,69,83,84>>
S_notify_default == <<104,116,116,112,58,47,47,101,120,97,109,112,108,101,46,99,111,109,47,110,111,116,105,102,121>>
S_return_default == <<104,116,116,112,58,47,47,101,120,97,109,112,108,101,46,99,111,109,47,114,101,116,117,114,110>>
\* "测试商品"
S_name_default == <<27979,35797,21830,21697>>
S_money_default == <<48,46,48,49>>
S_MD5 == <<77,68,53>>
S_None == <<78,111,110,101>>
S_submit_q == <<47,115,117,98,109,105,116,63>>
S_amp == <<38>>
S_eq == <<61>>
S_qmark == <<63>>

\* generate_payment_url.py: PID, KEY, BASE_URL
OLD_PID == <<49,48,48,49,48,48,51,53,52,57,50,52,53,51,51,57>>
OLD_KEY == <<99,100,53,100,99,100,99,98,101,102,52,100,97,54,55,98,57,102,51,97,48,49,98,49,101,51,57,49,97,98,56,54>>
OLD_BASE_URL == <<104,116,116,112,58,47,47,108,111,99,97,108,104,111,115,116,58,56,48,56,48,47,115,117,98,109,105,116>>
\* test_payment.py: PID, KEY, BASE_URL (also the defaults of generate_payment_url_v2.main)
PID == <<49,48,48,49,48,48,49,50,55,54,57,49,50,56,49,50>>
KEY == <<102,56,55,50,101,49,99,54,54,50,100,52,49,99,102,50,49,56,98,53,100,102,97,56,51,50,56,97,101,52,53,53>>
BASE_URL == <<104,116,116,112,58,47,47,108,111,99,97,108,104,111,115,116,58,56,48,56,48>>

----------------------------------------------------------------------------
(* Python values and dicts. *)

StrV(s) == [t |-> "str", s |-> s, n |-> 0]
IntV(n) == [t |-> "int", s |-> <<>>, n |-> n]
NoneV == [t |-> "none", s |-> <<>>, n |-> 0]

RECURSIVE Digits(_)
\* Decimal digits of a natural number.
Digits(n) == IF n < 10 THEN <<48 + n>> ELSE Digits(n \div 10) \o <<48 + (n % 10)>>

\* str(v), also what an f-string's {v} renders.
Str(v) == CASE v.t = "str" -> v.s
            [] v.t = "int" -> Digits(v.n)
            [] OTHER -> S_None

\* bool(v): the test of `if v`.
Truthy(v) == CASE v.t = "str" -> v.s # <<>>
               [] v.t = "int" -> v.n # 0
               [] OTHER -> FALSE

Entry(k, v) == [k |-> k, v |-> v]

\* The keys of a dict, in insertion order.
Keys(d) == [i \in 1..Len(d) |-> d[i].k]

KeySet(d) == {d[i].k : i \in 1..Len(d)}

\* k in d
Has(d, k) == k \in KeySet(d)

\* d[k], for a key of d
Lookup(d, k) == d[CHOOSE i \in 1..Len(d) : d[i].k = k].v

\* d.get(k, default)
Get(d, k, default) == IF Has(d, k) THEN Lookup(d, k) ELSE default

\* d[k] = v: an existing key keeps its place, a new key goes last.
DictSet(d, k, v) ==
    IF Has(d, k)
    THEN [i \in 1..Len(d) |-> IF d[i].k = k THEN Entry(k, v) ELSE d[i]]
    ELSE Append(d, Entry(k, v))

----------------------------------------------------------------------------
(* Text operations. *)

RECURSIVE StrLess(_, _)
\* a < b on str: lexicographic by code point.
StrLess(a, b) ==
    IF Len(a) = 0 THEN b # <<>>
    ELSE IF Len(b) = 0 THEN FALSE
    ELSE IF Head(a) # Head(b) THEN Head(a) < Head(b)
    ELSE StrLess(Tail(a), Tail(b))

RECURSIVE InsertKey(_, _)
InsertKey(x, s) ==
    IF Len(s) = 0 THEN <<x>>
    ELSE IF StrLess(x, Head(s)) THEN <<x>> \o s
    ELSE <<Head(s)>> \o InsertKey(x, Tail(s))

\* The keys left in insertion order.
sorted_insertion_order(s) == s

RECURSIVE sorted(_)
\* sorted(keys): ascending, stable.
sorted(s) == IF Len(s) = 0 THEN <<>>
             ELSE InsertKey(s[Len(s)], sorted(SubSeq(s, 1, Len(s) - 1)))

RECURSIVE InsertItem(_, _)
\* Tuples (k, v) compare by k first; a dict has no two items with one key, so
\* the comparison never reaches v.
InsertItem(x, s) ==
    IF Len(s) = 0 THEN <<x>>
    ELSE IF StrLess(x.k, Head(s).k) THEN <<x>> \o s
    ELSE <<Head(s)>> \o InsertItem(x, Tail(s))

RECURSIVE sorted_items(_)
\* sorted(params.items())
sorted_items(d) == IF Len(d) = 0 THEN <<>>
                   ELSE InsertItem(d[Len(d)], sorted_items(SubSeq(d, 1, Len(d) - 1)))

RECURSIVE Join(_, _)
\* sep.join(parts)
Join(sep, parts) ==
    IF Len(parts) = 0 THEN <<>>
    ELSE IF Len(parts) = 1 THEN parts[1]
    ELSE parts[1] \o sep \o Join(sep, Tail(parts))

RECURSIVE ConcatRange(_, _, _)
\* parts[lo] \o ... \o parts[hi], halving the range (long texts, shallow nesting).
ConcatRange(parts, lo, hi) ==
    IF lo > hi THEN <<>>
    ELSE IF lo = hi THEN parts[lo]
    ELSE LET mid == (lo + hi) \div 2
         IN  ConcatRange(parts, lo, mid) \o ConcatRange(parts, mid + 1, hi)

\* ''.join(parts)
Concat(parts) == ConcatRange(parts, 1, Len(parts))

\* One code point as UTF-8 bytes (code points below 65536).
Utf8Char(c) ==
    IF c < 128 THEN <<c>>
    ELSE IF c < 2048 THEN <<192 + (c \div 64), 128 + (c % 64)>>
    ELSE <<224 + (c \div 4096), 128 + ((c \div 64) % 64), 128 + (c % 64)>>

\* text.encode('utf-8') (ASCII text is its own encoding)
Utf8(s) == IF \A i \in 1..Len(s) : s[i] < 128 THEN s
           ELSE Concat([i \in 1..Len(s) |-> Utf8Char(s[i])])

\* One lowercase hexadecimal digit.
HexLower(d) == IF d < 10 THEN 48 + d ELSE 87 + d

RECURSIVE Digest(_, _, _)
\* The digest of bytes[lo..hi].  MD5 itself is not computed: it is abstracted by
\* a 16-bit position-weighted checksum, which keeps what the scripts rely on (a
\* function of the bytes alone, of fixed width).  Two different texts may
\* collide, so the properties below state the text handed to md5 as well as the
\* digest.
Digest(bytes, lo, hi) ==
    IF lo > hi THEN 0
    ELSE IF lo = hi THEN (((lo % 251) + 1) * (bytes[lo] + 1)) % 65521
    ELSE LET mid == (lo + hi) \div 2
         IN  (Digest(bytes, lo, mid) + Digest(bytes, mid + 1, hi)) % 65521

\* hashlib.md5(text.encode('utf-8')).hexdigest(): lowercase hexadecimal.
md5(text) ==
    LET bytes == Utf8(text)
        h == (Digest(bytes, 1, Len(bytes)) + 7 * Len(bytes)) % 65521
    IN  <<HexLower(h \div 4096), HexLower((h \div 256) % 16),
          HexLower((h \div 16) % 16), HexLower(h % 16)>>

----------------------------------------------------------------------------
(* The signers. *)

ReservedKeys == {S_sign, S_sign_type}

\* Only empty values are dropped: the reserved keys take part.
v2_filtered_keeps_reserved(p) == SelectSeq(p, LAMBDA e : Truthy(e.v))

\* Only the reserved keys are dropped: empty values take part.
v2_filtered_keeps_empty(p) == SelectSeq(p, LAMBDA e : e.k \notin ReservedKeys)

\* generate_payment_url_v2.py generate_sign, lines 24-25:
\* {k: v for k, v in params.items() if v and k not in ['sign', 'sign_type']}
v2_filtered(p) == SelectSeq(p, LAMBDA e : Truthy(e.v) /\ e.k \notin ReservedKeys)

\* Every pair followed by its own separator: a trailing "&".
PairsText_trailing_amp(d, ks) ==
    Concat([i \in 1..Len(ks) |-> ks[i] \o S_eq \o Str(Lookup(d, ks[i])) \o S_amp])

\* '&'.join([f'{k}={filtered[k]}' for k in sorted_keys])
PairsText(d, ks) ==
    Join(S_amp, [i \in 1..Len(ks) |-> ks[i] \o S_eq \o Str(Lookup(d, ks[i]))])

\* generate_payment_url_v2.py generate_sign: the sorted keys, the text handed
\* to md5 and the signature returned.
v2_generate_sign(p, k) ==
    LET filtered == v2_filtered(p)
        skeys == sorted(Keys(filtered))
        sign_str == PairsText(filtered, skeys)
        with_key == sign_str \o k
    IN  [sorted_keys |-> skeys, sign_str_with_key |-> with_key,
         signature |-> md5(with_key)]

\* test_payment.py generate_sign, lines 13-14
test_filtered(p) == SelectSeq(p, LAMBDA e : Truthy(e.v) /\ e.k \notin ReservedKeys)

\* test_payment.py generate_sign
test_generate_sign(p, k) ==
    LET filtered == test_filtered(p)
        skeys == sorted(Keys(filtered))
        sign_str == PairsText(filtered, skeys)
        with_key == sign_str \o k
    IN  [sorted_keys |-> skeys, sign_str_with_key |-> with_key,
         signature |-> md5(with_key)]

\* generate_payment_url.py generate_sign: every item takes part.
old_generate_sign(p, k) ==
    LET sorted_params == sorted_items(p)
        sign_str == Join(S_amp, [i \in 1..Len(sorted_params) |->
                        sorted_params[i].k \o S_eq \o Str(sorted_params[i].v)]) \o k
    IN  [sorted_keys |-> Keys(sorted_params), sign_str_with_key |-> sign_str,
         signature |-> md5(sign_str)]

----------------------------------------------------------------------------
(* Inputs of the signers. *)

\* Keys a dict for generate_sign is built from: two order fields and the two
\* reserved keys.
SignKeys == {S_money, S_name, S_sign, S_sign_type}

\* Values put under a key: the empty string, a text with a space, 0 and 10.
SignValues == {StrV(<<>>), StrV(<<97,32,98>>), IntV(0), IntV(10)}

\* Merchant secrets: the default of the scripts, and a short one ("key").
Secrets == {KEY, <<107,101,121>>}

Times == {1700000000, 1700000001}

\* test_payment.py lines 41-50: the dict the script signs.
TestPaymentParams(t) ==
    << Entry(S_pid, StrV(PID)),
       Entry(S_type, StrV(S_alipay)),
       Entry(S_out_trade_no, StrV(S_TEST \o Str(IntV(t)))),
       Entry(S_notify_url, StrV(S_notify_default)),
       Entry(S_return_url, StrV(S_return_default)),
       Entry(S_name, StrV(S_name_default)),
       Entry(S_money, StrV(S_money_default)),
       Entry(S_sign_type, StrV(S_MD5)) >>

UrlIdle ==
    /\ kwargs = <<>>
    /\ base_url = BASE_URL
    /\ uop = "none"
    /\ full_url = <<>>
    /\ url_params = <<>>

HarnessIdle ==
    /\ hpc = "start"
    /\ scenario = 0
    /\ issued = {}
    /\ timeouts = <<>>
    /\ response = [kind |-> "none", status |-> 0, shape |-> FALSE]
    /\ log = <<>>

Init ==
    /\ \/ params = <<>> /\ now = 1700000000 /\ key \in Secrets
       \/ now \in Times /\ params = TestPaymentParams(now) /\ key = KEY
    /\ op = "none"
    /\ sorted_keys = <<>>
    /\ sign_str_with_key = <<>>
    /\ signature = <<>>
    /\ UrlIdle
    /\ HarnessIdle

\* params[k] = v by the caller, while the dict is being built (a script builds
\* its dict, then signs it once).
SetItem(k, v) ==
    /\ op = "none"
    /\ Has(params, k) \/ Len(params) < MaxParams
    /\ params' = DictSet(params, k, v)
    /\ op' = "none"
    /\ sorted_keys' = <<>>
    /\ sign_str_with_key' = <<>>
    /\ signature' = <<>>
    /\ UNCHANGED <<key, urlVars, harnessVars>>

Returned(name, r) ==
    /\ op = "none"
    /\ op' = name
    /\ sorted_keys' = r.sorted_keys
    /\ sign_str_with_key' = r.sign_str_with_key
    /\ signature' = r.signature
    /\ UNCHANGED <<params, key, urlVars, harnessVars>>

\* generate_sign(params, key) of generate_payment_url_v2.py
CallV2 == Returned("v2", v2_generate_sign(params, key))

\* generate_sign(params, key) of test_payment.py
CallTest == Returned("test", test_generate_sign(params, key))

\* generate_sign(params, key) of generate_payment_url.py
CallOld == Returned("old", old_generate_sign(params, key))

Next ==
    \/ \E k \in SignKeys, v \in SignValues : SetItem(k, v)
    \/ CallV2
    \/ CallTest
    \/ CallOld

Spec == Init /\ [][Next]_vars

----------------------------------------------------------------------------
(* URL encoding and the two URL builders. *)

\* One uppercase hexadecimal digit.
HexUpper(d) == IF d < 10 THEN 48 + d ELSE 55 + d

\* '%{:02X}' of one byte
PercentByte(b) == <<37, HexUpper(b \div 16), HexUpper(b % 16)>>

\* urllib.parse: letters, digits and "_.-~" are never quoted.
AlwaysSafe(c) ==
    \/ c \in 48..57
    \/ c \in 65..90
    \/ c \in 97..122
    \/ c \in {95, 46, 45, 126}

\* urllib.parse.quote_plus of one character: a space becomes "+", a character
\* that is not always safe becomes %XX for each of its UTF-8 bytes.
QuotePlusChar(c) ==
    IF AlwaysSafe(c) THEN <<c>>
    ELSE IF c = 32 THEN <<43>>
    ELSE LET b == Utf8Char(c) IN Concat([i \in 1..Len(b) |-> PercentByte(b[i])])

\* urllib.parse.quote_plus(s)
quote_plus(s) == Concat([i \in 1..Len(s) |-> QuotePlusChar(s[i])])

\* urllib.parse.urlencode(d): quote_plus(str(k)) + '=' + quote_plus(str(v)), joined by '&'.
urlencode(d) ==
    Join(S_amp, [i \in 1..Len(d) |-> quote_plus(d[i].k) \o S_eq \o quote_plus(Str(d[i].v))])

\* generate_payment_url_v2.py generate_payment_url, lines 57-70: the parameter
\* dict before signing.
v2_params(pid, kw, t) ==
    LET base == << Entry(S_pid, pid),
                   Entry(S_type, Get(kw, S_type, StrV(S_alipay))),
                   Entry(S_out_trade_no, Get(kw, S_out_trade_no, StrV(S_TEST \o Str(IntV(t))))),
                   Entry(S_notify_url, Get(kw, S_notify_url, StrV(S_notify_default))),
                   Entry(S_return_url, Get(kw, S_return_url, StrV(S_return_default))),
                   Entry(S_name, Get(kw, S_name, StrV(S_name_default))),
                   Entry(S_money, StrV(Str(Get(kw, S_money, StrV(S_money_default))))),
                   Entry(S_sign_type, StrV(S_MD5)) >>
    IN  IF Has(kw, S_sitename) /\ Truthy(Lookup(kw, S_sitename))
        THEN DictSet(base, S_sitename, Lookup(kw, S_sitename))
        ELSE base

\* generate_payment_url_v2.py generate_payment_url: the signer's results, the
\* returned dict and the returned URL.
v2_generate_payment_url(burl, pid, merchant_key, kw, t) ==
    LET p == v2_params(pid, kw, t)
        signed == v2_generate_sign(p, merchant_key)
        out == DictSet(p, S_sign, StrV(signed.signature))
    IN  [signed_params |-> p, signed |-> signed, params |-> out,
         full_url |-> burl \o S_submit_q \o urlencode(out)]

\* generate_payment_url.py generate_payment_url, lines 27-35
old_params(amount, product_name, t) ==
    << Entry(S_pid, StrV(OLD_PID)),
       Entry(S_type, StrV(S_alipay)),
       Entry(S_out_trade_no, StrV(S_TEST \o Str(IntV(t)))),
       Entry(S_notify_url, StrV(S_notify_default)),
       Entry(S_return_url, StrV(S_return_default)),
       Entry(S_name, product_name),
       Entry(S_money, amount) >>

\* generate_payment_url.py generate_payment_url
old_generate_payment_url(amount, product_name, t) ==
    LET p == old_params(amount, product_name, t)
        signed == old_generate_sign(p, OLD_KEY)
        out == DictSet(DictSet(p, S_sign, StrV(signed.signature)), S_sign_type, StrV(S_MD5))
    IN  [signed_params |-> p, signed |-> signed, params |-> out,
         full_url |-> OLD_BASE_URL \o S_qmark \o urlencode(out)]

----------------------------------------------------------------------------
(* The gateway's side of the protocol: reading the query string back and
   recomputing the signature. *)

\* The places of character c in s, in ascending order.
PlacesOf(s, c) ==
    LET P == {i \in 1..Len(s) : s[i] = c}
    IN  [j \in 1..Cardinality(P) |-> CHOOSE i \in P : Cardinality({q \in P : q < i}) = j - 1]

\* s.split(c)
Split(s, c) ==
    LET at == PlacesOf(s, c)
        n == Len(at)
    IN  [j \in 1..(n + 1) |->
            SubSeq(s, (IF j = 1 THEN 1 ELSE at[j - 1] + 1),
                      (IF j = n + 1 THEN Len(s) ELSE at[j] - 1))]

HexVal(c) == IF c \in 48..57 THEN c - 48 ELSE IF c \in 65..70 THEN c - 55 ELSE c - 87

\* The bytes a quoted text stands for: "+" is a space, %XX is one byte.
UnquoteBytes(s) ==
    Concat([i \in 1..Len(s) |->
        IF s[i] = 37 /\ i + 2 <= Len(s) THEN <<16 * HexVal(s[i + 1]) + HexVal(s[i + 2])>>
        ELSE IF (i >= 2 /\ s[i - 1] = 37) \/ (i >= 3 /\ s[i - 2] = 37) THEN <<>>
        ELSE IF s[i] = 43 THEN <<32>>
        ELSE <<s[i]>>])

\* bytes.decode('utf-8'), for code points below 65536.
Utf8Decode(b) ==
    Concat([i \in 1..Len(b) |->
        IF b[i] < 128 THEN <<b[i]>>
        ELSE IF b[i] \in 192..223 /\ i + 1 <= Len(b)
             THEN <<(b[i] - 192) * 64 + (b[i + 1] - 128)>>
        ELSE IF b[i] \in 224..239 /\ i + 2 <= Len(b)
             THEN <<(b[i] - 224) * 4096 + (b[i + 1] - 128) * 64 + (b[i + 2] - 128)>>
        ELSE <<>>])

Unquote(s) == Utf8Decode(UnquoteBytes(s))

\* The query string of a URL: what follows the first "?".
QueryOf(url) ==
    LET at == PlacesOf(url, 63)
    IN  IF Len(at) = 0 THEN <<>> ELSE SubSeq(url, at[1] + 1, Len(url))

\* The pairs of a query string, every key and value a string.
ParseQuery(q) ==
    LET parts == Split(q, 38)
    IN  [j \in 1..Len(parts) |->
            LET eq == PlacesOf(parts[j], 61)
            IN  IF Len(eq) = 0
                THEN Entry(Unquote(parts[j]), StrV(<<>>))
                ELSE Entry(Unquote(SubSeq(parts[j], 1, eq[1] - 1)),
                           StrV(Unquote(SubSeq(parts[j], eq[1] + 1, Len(parts[j])))))]

\* The gateway's recomputation: reserved keys and empty values stripped, the
\* rest sorted by key, joined as key=value with "&", the secret appended, hashed.
GatewaySign(pairs, secret) ==
    LET kept == SelectSeq(pairs, LAMBDA e : e.k \notin ReservedKeys /\ Len(e.v.s) > 0)
        rank(i) == 1 + Cardinality({j \in 1..Len(kept) : StrLess(kept[j].k, kept[i].k)})
        ordered == [r \in 1..Len(kept) |-> kept[CHOOSE i \in 1..Len(kept) : rank(i) = r]]
    IN  md5(Join(S_amp, [r \in 1..Len(kept) |-> ordered[r].k \o S_eq \o ordered[r].v.s]) \o secret)

----------------------------------------------------------------------------
(* Calls of the URL builders. *)

\* Keyword arguments given to a builder.
UrlKeys == {S_type, S_out_trade_no, S_name, S_money, S_sitename, S_sign, S_sign_type,
            S_amount, S_product_name}

\* Values given: the empty string, the text "a &=%+测", 0 and None.
UrlValues == {StrV(<<>>), StrV(<<97,32,38,61,37,43,27979>>), IntV(0), NoneV}

\* Merchant ids given to the v2 builder: the default of the scripts, and none.
Pids == {StrV(PID), StrV(<<>>)}

UrlInit ==
    /\ params = <<>>
    /\ key \in Secrets
    /\ op = "none"
    /\ sorted_keys = <<>>
    /\ sign_str_with_key = <<>>
    /\ signature = <<>>
    /\ kwargs = <<>>
    /\ now \in Times
    /\ base_url = BASE_URL
    /\ uop = "none"
    /\ full_url = <<>>
    /\ url_params = <<>>
    /\ HarnessIdle

\* One more keyword argument of the call being written.
SetKwarg(k, v) ==
    /\ uop = "none"
    /\ Has(kwargs, k) \/ Len(kwargs) < MaxKwargs
    /\ kwargs' = DictSet(kwargs, k, v)
    /\ UNCHANGED <<signVars, key, now, base_url, uop, full_url, url_params, harnessVars>>

BuilderReturned(name, r, secret) ==
    /\ uop = "none"
    /\ uop' = name
    /\ params' = r.signed_params
    /\ key' = secret
    /\ op' = name
    /\ sorted_keys' = r.signed.sorted_keys
    /\ sign_str_with_key' = r.signed.sign_str_with_key
    /\ signature' = r.signed.signature
    /\ full_url' = r.full_url
    /\ url_params' = r.params
    /\ UNCHANGED <<kwargs, now, base_url, harnessVars>>

\* generate_payment_url(base_url, pid, merchant_key, **kwargs) of generate_payment_url_v2.py
CallBuildV2(pid) ==
    BuilderReturned("v2", v2_generate_payment_url(base_url, pid, key, kwargs, now), key)

\* generate_payment_url(**kwargs) of generate_payment_url.py: it takes amount
\* and product_name only (any other keyword is a TypeError before the body runs).
CallBuildOld ==
    /\ KeySet(kwargs) \subseteq {S_amount, S_product_name}
    /\ BuilderReturned("old",
           old_generate_payment_url(Get(kwargs, S_amount, StrV(S_money_default)),
                                    Get(kwargs, S_product_name, StrV(S_name_default)), now),
           OLD_KEY)

UrlNext ==
    \/ \E k \in UrlKeys, v \in UrlValues : SetKwarg(k, v)
    \/ \E pid \in Pids : CallBuildV2(pid)
    \/ CallBuildOld

UrlSpec == UrlInit /\ [][UrlNext]_vars

----------------------------------------------------------------------------
(* The deep-link harness: main of test_alipay_deeplink.py. *)

\* The scenarios main runs, in order: default QR code, explicit QR code, no
\* amount, missing QR code, invalid amount, direct redirect.
NumScenarios == 6

\* Status codes the server may answer with.
Statuses == {200, 302, 400}

NoResponse == [kind |-> "none", status |-> 0, shape |-> FALSE]

HarnessInit ==
    /\ params = <<>>
    /\ key = KEY
    /\ op = "none"
    /\ sorted_keys = <<>>
    /\ sign_str_with_key = <<>>
    /\ signature = <<>>
    /\ now = 1700000000
    /\ UrlIdle
    /\ hpc = "start"
    /\ scenario = 0
    /\ issued = {}
    /\ timeouts = <<>>
    /\ response = NoResponse
    /\ log = <<>>

\* main, lines 112-120: the header and the configuration are printed and the
\* try block is entered.
Start ==
    /\ hpc = "start"
    /\ hpc' = "request"
    /\ scenario' = 1
    /\ log' = Append(log, [what |-> "header", scenario |-> 0, status |-> 0, shape |-> FALSE])
    /\ UNCHANGED <<issued, timeouts, response, signVars, key, urlVars>>

\* test_*: requests.get(url) is called with no timeout argument, so the call
\* blocks until the server answers or the connection fails.
Issue ==
    /\ hpc = "request"
    /\ hpc' = "waiting"
    /\ issued' = issued \cup {scenario}
    /\ timeouts' = Append(timeouts, "none")
    /\ response' = NoResponse
    /\ UNCHANGED <<scenario, log, signVars, key, urlVars>>

\* The server answers the pending request: a status, and whether the answer
\* has the part the scenario prints (a JSON body; for scenario 6 a Location
\* header).
ServerAnswers(status, shape) ==
    /\ hpc = "waiting"
    /\ response.kind = "none"
    /\ response' = [kind |-> "http", status |-> status, shape |-> shape]
    /\ UNCHANGED <<hpc, scenario, issued, timeouts, log, signVars, key, urlVars>>

\* The server refuses the connection.
ServerRefuses ==
    /\ hpc = "waiting"
    /\ response.kind = "none"
    /\ response' = [kind |-> "refused", status |-> 0, shape |-> FALSE]
    /\ UNCHANGED <<hpc, scenario, issued, timeouts, log, signVars, key, urlVars>>

\* The server drops the connection in the middle of the body.
ServerBreaks ==
    /\ hpc = "waiting"
    /\ response.kind = "none"
    /\ response' = [kind |-> "broken", status |-> 0, shape |-> FALSE]
    /\ UNCHANGED <<hpc, scenario, issued, timeouts, log, signVars, key, urlVars>>

\* requests.get returns; the scenario prints its report (print_test, or lines
\* 100-107) and main goes on to the next scenario, or prints the completion
\* banner after the last one.
Receive ==
    /\ hpc = "waiting"
    /\ response.kind = "http"
    /\ LET report == [what |-> "report", scenario |-> scenario,
                      status |-> response.status, shape |-> response.shape]
           banner == [what |-> "banner", scenario |-> 0, status |-> 0, shape |-> FALSE]
       IN  IF scenario < NumScenarios
           THEN /\ log' = Append(log, report)
                /\ scenario' = scenario + 1
                /\ hpc' = "request"
           ELSE /\ log' = Append(Append(log, report), banner)
                /\ scenario' = scenario
                /\ hpc' = "done"
    /\ UNCHANGED <<issued, timeouts, response, signVars, key, urlVars>>

\* requests.get raises ConnectionError: it leaves the test function and the
\* try block; main's handler (lines 136-140) prints that the server cannot be
\* reached, and main ends.
RaiseConnectionError ==
    /\ hpc = "waiting"
    /\ response.kind = "refused"
    /\ log' = Append(log, [what |-> "cannot_connect", scenario |-> 0, status |-> 0,
                           shape |-> FALSE])
    /\ hpc' = "done"
    /\ UNCHANGED <<scenario, issued, timeouts, response, signVars, key, urlVars>>

\* requests.get raises another exception: main's handler (lines 141-143)
\* prints it, and main ends.
RaiseOther ==
    /\ hpc = "waiting"
    /\ response.kind = "broken"
    /\ log' = Append(log, [what |-> "error", scenario |-> 0, status |-> 0, shape |-> FALSE])
    /\ hpc' = "done"
    /\ UNCHANGED <<scenario, issued, timeouts, response, signVars, key, urlVars>>

\* The steps of the script itself.
HarnessStep ==
    \/ Start
    \/ Issue
    \/ Receive
    \/ RaiseConnectionError
    \/ RaiseOther

\* The steps of the server.
ServerStep ==
    \/ \E status \in Statuses, shape \in BOOLEAN : ServerAnswers(status, shape)
    \/ ServerRefuses
    \/ ServerBreaks

HarnessNext == HarnessStep \/ ServerStep

HarnessSpec == HarnessInit /\ [][HarnessNext]_vars

\* The script is one thread that runs whenever it can; the server owes nothing.
HarnessLive == HarnessSpec /\ WF_vars(HarnessStep)

----------------------------------------------------------------------------
(* Properties of the signers. *)

\* What the signer that ran last returned and printed.
Result ==
    [sorted_keys |-> sorted_keys, sign_str_with_key |-> sign_str_with_key,
     signature |-> signature]

\* The signer named o applied to dict p and secret k.
SignerOf(o, p, k) ==
    CASE o = "v2" -> v2_generate_sign(p, k)
      [] o = "test" -> test_generate_sign(p, k)
      [] OTHER -> old_generate_sign(p, k)

\* The dict without its entries at the positions in drop.
Without(d, drop) == SelectSeq([i \in 1..Len(d) |-> [e |-> d[i], i |-> i]],
                              LAMBDA x : x.i \notin drop)

Entries(d) == [i \in 1..Len(d) |-> d[i].e]

RECURSIVE PermsOf(_)
\* Every arrangement of the set S as a sequence.
PermsOf(S) ==
    IF S = {} THEN {<<>>}
    ELSE UNION {{<<x>> \o q : q \in PermsOf(S \ {x})} : x \in S}

\* Insertion orders of d's entries: every order of a dict of up to three
\* entries; for a longer dict every exchange of two entries (every order is a
\* chain of exchanges, and the property is stated of every dict).
Reorderings(d) ==
    IF Len(d) <= 3
    THEN {[i \in 1..Len(d) |-> d[q[i]]] : q \in PermsOf(1..Len(d))}
    ELSE {[i \in 1..Len(d) |-> IF i = x[1] THEN d[x[2]] ELSE IF i = x[2] THEN d[x[1]] ELSE d[i]] :
            x \in {y \in (1..Len(d)) \X (1..Len(d)) : y[1] < y[2]}}

ReservedValues == SignValues \cup {StrV(S_MD5)}

\* C2: signing with generate_sign (v2, test_payment) gives the same text and
\* signature when an entry for sign and/or sign_type is added or overwritten
\* with any value, and no reserved key is among the keys that take part.
ExclusionInvariance ==
    op \in {"v2", "test"} =>
        /\ \A i \in 1..Len(sorted_keys) : sorted_keys[i] \notin ReservedKeys
        /\ \A v \in ReservedValues :
              /\ \A r \in ReservedKeys : SignerOf(op, DictSet(params, r, v), key) = Result
              /\ SignerOf(op, DictSet(DictSet(params, S_sign, v), S_sign_type, StrV(S_MD5)), key)
                    = Result

\* C2 witness: a dict with a non-empty sign entry and an entry that takes part
\* was signed.
ExclusionWitness ==
    /\ op = "v2"
    /\ Has(params, S_sign)
    /\ Truthy(Lookup(params, S_sign))
    /\ Len(sorted_keys) > 0

\* C3: an entry whose value is the empty string changes nothing: signing with
\* such an entry added under a new key, or with such an entry of the dict
\* removed, gives the same text and signature.
EmptyValueInvariance ==
    op = "v2" =>
        /\ \A k \in (SignKeys \cup {S_pid}) \ KeySet(params) :
              v2_generate_sign(DictSet(params, k, StrV(<<>>)), key) = Result
        /\ \A i \in 1..Len(params) :
              params[i].v = StrV(<<>>) =>
                  v2_generate_sign(Entries(Without(params, {i})), key) = Result

\* C3 witness: a dict with an empty-string entry and an entry that takes part
\* was signed.
EmptyValueWitness ==
    /\ op = "v2"
    /\ \E i \in 1..Len(params) : params[i].v = StrV(<<>>) /\ params[i].k \notin ReservedKeys
    /\ Len(sorted_keys) > 0

\* C4: the keys that take part in the signature are exactly the keys of the
\* entries that are not reserved and whose value, as a string, is not empty (so
\* an entry with the number 0 takes part).
OnlyEmptyStringsRemoved ==
    op \in {"v2", "test"} =>
        {sorted_keys[i] : i \in 1..Len(sorted_keys)} =
            {params[i].k : i \in {j \in 1..Len(params) :
                                     /\ params[j].k \notin ReservedKeys
                                     /\ Len(Str(params[j].v)) > 0}}

\* C5: the signature (and the text signed) is the same for every insertion
\* order of the dict's entries, for both generate_sign of the URL builders.
OrderIndependence ==
    op \in {"v2", "old"} =>
        \A q \in Reorderings(params) : SignerOf(op, q, key) = Result

\* C5 witness: a dict whose entries were not inserted in key order was signed.
OrderWitness ==
    /\ op = "v2"
    /\ Len(sorted_keys) >= 2
    /\ Keys(v2_filtered(params)) # sorted_keys

\* The seven order fields in ascending order.
SevenKeys == <<S_money, S_name, S_notify_url, S_out_trade_no, S_pid, S_return_url, S_type>>

\* The entry of d under key k as key=value text, raw.
PairOf(d, k) == k \o S_eq \o Str(Lookup(d, k))

\* C6: the text generate_sign hashes is the retained pairs in strictly
\* ascending key order, each key=value with the raw value, separated by single
\* "&", followed directly by the secret; nothing retained gives the secret
\* alone; the seven order fields come in the order money, name, notify_url,
\* out_trade_no, pid, return_url, type.
CanonicalForm ==
    op = "v2" =>
        LET n == Len(sorted_keys)
            retained == {sorted_keys[i] : i \in 1..n}
            rank(k) == 1 + Cardinality({j \in retained : StrLess(j, k)})
        IN  /\ retained \subseteq KeySet(params)
            /\ \A i \in 1..n : rank(sorted_keys[i]) = i
            /\ \A i \in 1..(n - 1) : StrLess(sorted_keys[i], sorted_keys[i + 1])
            /\ sign_str_with_key =
                  Concat([i \in 1..n |-> (IF i = 1 THEN <<>> ELSE S_amp)
                                            \o PairOf(params, sorted_keys[i])]) \o key
            /\ (\A i \in 1..Len(params) :
                   params[i].k \in ReservedKeys \/ params[i].v = StrV(<<>>))
                  => sign_str_with_key = key
            /\ retained = {SevenKeys[i] : i \in 1..7} => sorted_keys = SevenKeys
            /\ signature = md5(sign_str_with_key)

\* C6 witness: the dict of test_payment.py, with all seven order fields, was
\* signed.
CanonicalWitness ==
    /\ op = "v2"
    /\ sorted_keys = SevenKeys
    /\ \E i \in 1..Len(params) : params[i].v = StrV(<<97,32,98>>) /\ params[i].k = S_name

\* C10: the signer of generate_payment_url.py returns the signature that the
\* signers of generate_payment_url_v2.py and test_payment.py return for the
\* same dict and secret.
SignersAgree ==
    op = "old" =>
        /\ signature = v2_generate_sign(params, key).signature
        /\ signature = test_generate_sign(params, key).signature

----------------------------------------------------------------------------
(* Properties of the URL builders. *)

\* The value the query string of the returned URL carries under key k.
Carried(k) == Get(ParseQuery(QueryOf(full_url)), k, StrV(<<>>)).s

\* C1: for every URL a builder returns, the gateway's recomputation over the
\* URL's query string equals the value the URL carries under sign.
RoundTrip ==
    uop \in {"v2", "old"} =>
        GatewaySign(ParseQuery(QueryOf(full_url)), key) = Carried(S_sign)

\* A value that was supplied and is not empty: not None, and not the empty
\* string once normalized to a string.
NonEmpty(v) == v.t # "none" /\ Len(Str(v)) > 0

\* C7: the URL of the v2 builder is base_url + "/submit?" + a query string that
\* carries every entry of the returned dict: the seven order fields, sign_type
\* = MD5, sign = the signature over the other entries, and sitename exactly
\* when a non-empty sitename was supplied; a sign or sign_type keyword never
\* replaces the two values.
UrlCarriesAllParams ==
    uop = "v2" =>
        LET prefix == base_url \o S_submit_q
            query == ParseQuery(QueryOf(full_url))
        IN  /\ SubSeq(full_url, 1, Len(prefix)) = prefix
            /\ Len(query) = Len(url_params)
            /\ \A i \in 1..Len(url_params) :
                  query[i] = Entry(url_params[i].k, StrV(Str(url_params[i].v)))
            /\ {SevenKeys[i] : i \in 1..7} \cup {S_sign, S_sign_type} \subseteq KeySet(url_params)
            /\ KeySet(url_params) \subseteq
                  {SevenKeys[i] : i \in 1..7} \cup {S_sign, S_sign_type, S_sitename}
            /\ Lookup(url_params, S_sign_type) = StrV(S_MD5)
            /\ Lookup(url_params, S_sign) = StrV(signature)
            /\ signature =
                  v2_generate_sign(SelectSeq(url_params, LAMBDA e : e.k # S_sign), key).signature
            /\ Has(url_params, S_sitename)
                  <=> (Has(kwargs, S_sitename) /\ NonEmpty(Lookup(kwargs, S_sitename)))

----------------------------------------------------------------------------
(* Properties of the deep-link harness. *)

\* C8: when the request of a scenario fails with a connection error, the
\* requests of all later scenarios are still issued: main never ends with a
\* refused request and a scenario left unrequested.
ScenarioIsolation ==
    (hpc = "done" /\ response.kind = "refused") => issued = 1..NumScenarios

\* C9: whatever the server does (answers, refuses, never answers), main
\* eventually reaches its end.
HarnessTerminates == <>(hpc = "done")

====
